---- MODULE Spec2Model ----
(***************************************************************************)
(* Model of the recipe selection system (src/src/main.py).                 *)
(*                                                                         *)
(* A Recipe is a record [name, price, cooking_time, rating].  The fields   *)
(* category, ingredients and steps are never read by the sorting, filter   *)
(* or delete code and are left out.  Prices and ratings are Python floats  *)
(* and cooking times Python ints; all values used here are whole numbers,  *)
(* on which Python's <, <=, > agree with the integer order, and the float  *)
(* NaN, with which every comparison is False.                              *)
(*                                                                         *)
(* A recipe's name doubles as its identity: two recipes of one list never  *)
(* share a name, so that two recipes with equal sort keys stay             *)
(* distinguishable.                                                        *)
(*                                                                         *)
(* Specifications:                                                         *)
(*   SortSpec  calls LoopSorting.sort / RecursionSorting.sort on every     *)
(*             bounded list of recipes, with list objects kept in a heap   *)
(*             so that "returns a new list" is observable;                 *)
(*   LoopSpec  LoopSorting.sort run one comparison at a time;              *)
(*   Spec      the User catalog under add, delete, edit, rate and sort;    *)
(*   InputSpec the same catalog, loaded from a CSV file first, with input  *)
(*             texts that float() and int() accept although they are no    *)
(*             price, time or rating ("-5", "nan").                        *)
(***************************************************************************)
EXTENDS Integers, Sequences, FiniteSets, TLC

VARIABLES
    heap,       \* SortSpec: the list objects, heap[ref] is the content of list ref
    arg,        \* SortSpec: ref of the list passed to the last sort call (0: none)
    res,        \* SortSpec: ref of the list the last sort call returned (0: none)
    snapshot,   \* SortSpec: content of heap[arg] when the last call was made
    alg,        \* SortSpec: algorithm of the last call
    key,        \* SortSpec: key of the last call
    phase,      \* SortSpec: "ready", "sorted" (one call made), "resorted" (two),
                \*           "filtered" (the filtered sort of sort_recipes made)
    frame,      \* LoopSpec: the locals of the running LoopSorting.sort call
    recipes,    \* Spec: User.recipes
    op,         \* Spec: name of the last operation on the catalog
    ret         \* Spec: what the last operation returned or raised

vars == <<heap, arg, res, snapshot, alg, key, phase, frame, recipes, op, ret>>
sortVars == <<heap, arg, res, snapshot, alg, key, phase, frame>>
userVars == <<recipes, op, ret>>

---------------------------------------------------------------------------
(* Bounds *)

\* longest list handed to a sort in SortSpec
MaxLen == 3
\* largest catalog in Spec
MaxRecipes == 2

---------------------------------------------------------------------------
(* Recipe *)

Prices == {8, 10, 12}
CookingTimes == {30, 40}
Ratings == {0, 3}

\* Recipe.__init__ with the default rating=0.0
Recipe(name, price, cooking_time) ==
    [name |-> name, price |-> price, cooking_time |-> cooking_time, rating |-> 0]

\* the attributes getattr finds on a Recipe of the model
Attributes == {"name", "price", "cooking_time", "rating"}

\* the keys main() passes to sort_recipes
SortKeys == {"price", "cooking_time", "rating"}

\* getattr(recipe, key); AttributeError when key is no attribute
HasAttr(k) == k \in Attributes
GetAttr(recipe, k) == recipe[k]

---------------------------------------------------------------------------
(* Python's comparisons on numbers.  float("nan") is a float that compares *)
(* False with everything, itself included; NaN stands for it here, as a    *)
(* number no other value of the model takes.                               *)

NaN == -1000

PyLt(a, b) == a # NaN /\ b # NaN /\ a < b
PyLe(a, b) == a # NaN /\ b # NaN /\ a <= b
PyGt(a, b) == a # NaN /\ b # NaN /\ a > b
PyGe(a, b) == a # NaN /\ b # NaN /\ a >= b

---------------------------------------------------------------------------
(* LoopSorting.sort: bubble sort on a copy *)

Swap(s, a, b) == [s EXCEPT ![a] = s[b], ![b] = s[a]]

\* LoopSorting.sort swapping on >= instead of >
RECURSIVE LoopSorting_inner_swap_on_equal(_, _, _, _)
LoopSorting_inner_swap_on_equal(result, k, j, stop) ==
    IF j >= stop THEN result
    ELSE LoopSorting_inner_swap_on_equal(
            IF PyGe(GetAttr(result[j + 1], k), GetAttr(result[j + 2], k))
                THEN Swap(result, j + 1, j + 2)
                ELSE result,
            k, j + 1, stop)

\* for j in range(0, n - i - 1): j is 0-based, stop = n - i - 1
RECURSIVE LoopSorting_inner(_, _, _, _)
LoopSorting_inner(result, k, j, stop) ==
    IF j >= stop THEN result
    ELSE LoopSorting_inner(
            IF PyGt(GetAttr(result[j + 1], k), GetAttr(result[j + 2], k))
                THEN Swap(result, j + 1, j + 2)
                ELSE result,
            k, j + 1, stop)

\* for i in range(n)
RECURSIVE LoopSorting_outer(_, _, _, _)
LoopSorting_outer(result, k, i, n) ==
    IF i >= n THEN result
    ELSE LoopSorting_outer(LoopSorting_inner(result, k, 0, n - i - 1), k, i + 1, n)

\* LoopSorting.sort making one pass only
LoopSorting_sort_one_pass(rs, k) == LoopSorting_inner(rs, k, 0, Len(rs) - 1)

\* the content of the list LoopSorting.sort returns
LoopSorting_sort(rs, k) == LoopSorting_outer(rs, k, 0, Len(rs))

\* getattr is reached iff the inner loop body runs at least once: n >= 2
LoopSorting_raises(rs, k) == Len(rs) >= 2 /\ ~HasAttr(k)

---------------------------------------------------------------------------
(* RecursionSorting.sort: merge sort *)

\* _merge taking the right head on ties (< instead of <=)
RECURSIVE RecursionSorting_merge_loop_right_on_ties(_, _, _, _, _, _)
RecursionSorting_merge_loop_right_on_ties(left, right, k, i, j, result) ==
    IF i < Len(left) /\ j < Len(right)
    THEN IF PyLt(GetAttr(left[i + 1], k), GetAttr(right[j + 1], k))
         THEN RecursionSorting_merge_loop_right_on_ties(left, right, k, i + 1, j, Append(result, left[i + 1]))
         ELSE RecursionSorting_merge_loop_right_on_ties(left, right, k, i, j + 1, Append(result, right[j + 1]))
    ELSE result \o SubSeq(left, i + 1, Len(left)) \o SubSeq(right, j + 1, Len(right))

\* the while loop of _merge, then the two extends; i, j are 0-based
RECURSIVE RecursionSorting_merge_loop(_, _, _, _, _, _)
RecursionSorting_merge_loop(left, right, k, i, j, result) ==
    IF i < Len(left) /\ j < Len(right)
    THEN IF PyLe(GetAttr(left[i + 1], k), GetAttr(right[j + 1], k))
         THEN RecursionSorting_merge_loop(left, right, k, i + 1, j, Append(result, left[i + 1]))
         ELSE RecursionSorting_merge_loop(left, right, k, i, j + 1, Append(result, right[j + 1]))
    ELSE result \o SubSeq(left, i + 1, Len(left)) \o SubSeq(right, j + 1, Len(right))

\* _merge called with the halves exchanged
RecursionSorting_merge_halves_exchanged(left, right, k) ==
    RecursionSorting_merge_loop(right, left, k, 0, 0, <<>>)

RecursionSorting_merge(left, right, k) ==
    RecursionSorting_merge_loop(left, right, k, 0, 0, <<>>)

RECURSIVE RecursionSorting_sort(_, _)
RecursionSorting_sort(rs, k) ==
    IF Len(rs) <= 1 THEN rs
    ELSE LET mid == Len(rs) \div 2
             left == RecursionSorting_sort(SubSeq(rs, 1, mid), k)
             right == RecursionSorting_sort(SubSeq(rs, mid + 1, Len(rs)), k)
         IN  RecursionSorting_merge(left, right, k)

\* getattr is reached iff _merge compares, which every list of length >= 2 does
RecursionSorting_raises(rs, k) == Len(rs) >= 2 /\ ~HasAttr(k)

---------------------------------------------------------------------------
(* The two sort methods as calls on list objects.  A call takes the heap   *)
(* and the ref of its argument and gives the heap after the call and the   *)
(* ref it returns.                                                         *)

\* result = recipes.copy(): a new list object; the swaps act on the copy
LoopSorting_call(h, ref, k) ==
    [heap |-> Append(h, LoopSorting_sort(h[ref], k)), ret |-> Len(h) + 1]

\* len(recipes) <= 1: return recipes, the argument itself;
\* otherwise the list _merge builds (result = [])
RecursionSorting_call(h, ref, k) ==
    IF Len(h[ref]) <= 1
    THEN [heap |-> h, ret |-> ref]
    ELSE [heap |-> Append(h, RecursionSorting_sort(h[ref], k)), ret |-> Len(h) + 1]

Sorter_call(a, h, ref, k) ==
    IF a = "recursion" THEN RecursionSorting_call(h, ref, k) ELSE LoopSorting_call(h, ref, k)

Algorithms == {"loop", "recursion"}

---------------------------------------------------------------------------
(* Console input.  input() gives a text; float() and int() turn it into a  *)
(* number or raise ValueError.  The texts of the model are the numerals    *)
(* below, the word "abc" (no number) and the empty text (Enter alone).     *)

NumeralValue ==
    ( "-5" :> -5 @@ "-1" :> -1 @@ "0" :> 0 @@ "1" :> 1 @@ "2" :> 2 @@ "3" :> 3 @@ "4" :> 4 @@
      "5" :> 5 @@ "6" :> 6 @@ "10" :> 10 @@ "12" :> 12 @@ "30" :> 30 @@ "40" :> 40 )

\* int(text): the value, or ValueError when IsNumeral is false
IsNumeral(text) == text \in DOMAIN NumeralValue
ParseInt(text) == NumeralValue[text]

\* float(text): what int accepts, "10.0" and "nan"; ValueError when IsFloatText is false
IsFloatText(text) == IsNumeral(text) \/ text \in {"10.0", "nan"}
ParseFloat(text) ==
    IF text = "nan" THEN NaN ELSE IF text = "10.0" THEN 10 ELSE NumeralValue[text]

\* price_str.replace(',', '.') on the texts a CSV cell holds here
ReplaceComma(text) == IF text = "10,0" THEN "10.0" ELSE text

PriceText == {"10", "12", "abc"}
TimeText == {"30", "40", "abc"}
RatingText == {"-1", "3", "6", "abc"}
NumberText == {"0", "1", "2", "3", "4", "5", "abc"}

\* the names a new recipe may take: none of the catalog has it yet
Names == 1..MaxRecipes
NamesOf(rs) == { rs[i].name : i \in DOMAIN rs }

---------------------------------------------------------------------------
(* User *)

\* self.recipes.pop(index)
Pop(rs, index) ==
    [i \in 1..(Len(rs) - 1) |-> IF i <= index THEN rs[i] ELSE rs[i + 1]]

\* User.add_recipe
add_recipe(recipe) ==
    /\ recipes' = Append(recipes, recipe)

\* add_new_recipe_interactive: the two conversions, then Recipe(...) and add_recipe
add_new_recipe_interactive(name, priceText, timeText) ==
    /\ IF IsFloatText(priceText) /\ IsNumeral(timeText)
       THEN /\ Len(recipes) < MaxRecipes
            /\ name \notin NamesOf(recipes)
            /\ add_recipe(Recipe(name, ParseFloat(priceText), ParseInt(timeText)))
       ELSE recipes' = recipes
    /\ op' = "add" /\ ret' = "None"
    /\ UNCHANGED sortVars

\* delete_recipe testing only index < len: a negative index pops from the end
delete_recipe_no_lower_bound(index) ==
    /\ IF index < Len(recipes)
       THEN /\ recipes' = Pop(recipes, IF index < 0 THEN Len(recipes) + index ELSE index)
            /\ ret' = "True"
       ELSE recipes' = recipes /\ ret' = "False"
    /\ op' = "delete"
    /\ UNCHANGED sortVars

\* User.delete_recipe(index), index 0-based
delete_recipe(index) ==
    /\ IF 0 <= index /\ index < Len(recipes)
       THEN recipes' = Pop(recipes, index) /\ ret' = "True"
       ELSE recipes' = recipes /\ ret' = "False"
    /\ op' = "delete"
    /\ UNCHANGED sortVars

\* User.edit_recipe(index): Enter alone keeps a value, a text that is no number
\* keeps it too; name, category, ingredients and steps are kept (Enter, "n")
EditedField(old, text) == IF text # "" /\ IsNumeral(text) THEN ParseInt(text) ELSE old
EditedPrice(old, text) == IF text # "" /\ IsFloatText(text) THEN ParseFloat(text) ELSE old

edit_recipe(index, priceText, timeText) ==
    /\ IF 0 <= index /\ index < Len(recipes)
       THEN /\ recipes' = [recipes EXCEPT
                  ![index + 1].price = EditedPrice(@, priceText),
                  ![index + 1].cooking_time = EditedField(@, timeText)]
            /\ ret' = "True"
       ELSE recipes' = recipes /\ ret' = "False"
    /\ op' = "edit"
    /\ UNCHANGED sortVars

\* rate_recipe(user)
rate_recipe(numberText, ratingText) ==
    /\ IF recipes = <<>> \/ ~IsNumeral(numberText)
       THEN recipes' = recipes
       ELSE LET index == ParseInt(numberText) - 1
            IN  IF ~(0 <= index /\ index < Len(recipes)) \/ ~IsFloatText(ratingText)
                THEN recipes' = recipes
                ELSE LET rating == ParseFloat(ratingText)
                     IN  IF PyLt(rating, 0) \/ PyGt(rating, 5)
                         THEN recipes' = recipes
                         ELSE recipes' = [recipes EXCEPT ![index + 1].rating = rating]
    /\ op' = "rate" /\ ret' = "None"
    /\ UNCHANGED sortVars

---------------------------------------------------------------------------
(* User.sort_recipes *)

\* the logical expression "cheap AND quick"
CheapAndQuick(r) == PyLe(r.price, 10) /\ PyLe(r.cooking_time, 30)
NotCheapAndQuick(r) == ~(PyLe(r.price, 10) /\ PyLe(r.cooking_time, 30))

\* filtered taking price < 10 where not_filtered negates price <= 10
Filtered_price_below_limit(rs) ==
    LET Cheaper(r) == PyLt(r.price, 10) /\ PyLe(r.cooking_time, 30)
    IN  SelectSeq(rs, Cheaper)

\* filtered = [r for r in self.recipes if ...]
Filtered(rs) == SelectSeq(rs, CheapAndQuick)
\* not_filtered with the negation pushed inside without exchanging "and" for "or"
NotFiltered_wrong_negation(rs) ==
    LET Neither(r) == ~(r.price <= 10) /\ ~(r.cooking_time <= 30)
    IN  SelectSeq(rs, Neither)

\* not_filtered = [r for r in self.recipes if not (...)]
NotFiltered(rs) == SelectSeq(rs, NotCheapAndQuick)

Sorter_sort(use_recursion, rs, k) ==
    IF use_recursion THEN RecursionSorting_sort(rs, k) ELSE LoopSorting_sort(rs, k)

Sorter_raises(use_recursion, rs, k) ==
    IF use_recursion THEN RecursionSorting_raises(rs, k) ELSE LoopSorting_raises(rs, k)

\* value = getattr(recipe, sort_by) in a display loop over a non-empty list
Display_raises(rs, k) == rs # <<>> /\ ~HasAttr(k)

\* whether the call raises AttributeError before line 306 is reached
sort_recipes_raises(rs, sort_by, use_recursion, use_logical_filter) ==
    IF use_logical_filter
    THEN \/ Sorter_raises(use_recursion, Filtered(rs), sort_by)
         \/ Sorter_raises(use_recursion, NotFiltered(rs), sort_by)
         \/ (Filtered(rs) # <<>> /\ Display_raises(rs, sort_by))
         \/ Display_raises(NotFiltered(rs), sort_by)
    ELSE \/ Sorter_raises(use_recursion, rs, sort_by)
         \/ Display_raises(rs, sort_by)

\* sorted_recipes with the two parts joined the other way round
sorted_recipes_rest_first(rs, sort_by, use_recursion, use_logical_filter) ==
    IF use_logical_filter
    THEN Sorter_sort(use_recursion, NotFiltered(rs), sort_by)
            \o Sorter_sort(use_recursion, Filtered(rs), sort_by)
    ELSE Sorter_sort(use_recursion, rs, sort_by)

\* sorted_recipes
sorted_recipes(rs, sort_by, use_recursion, use_logical_filter) ==
    IF use_logical_filter
    THEN Sorter_sort(use_recursion, Filtered(rs), sort_by)
            \o Sorter_sort(use_recursion, NotFiltered(rs), sort_by)
    ELSE Sorter_sort(use_recursion, rs, sort_by)

\* sort_recipes keeping only the matches of a filtered sort
sort_recipes_keeps_matches(sort_by, use_recursion, use_logical_filter) ==
    /\ IF recipes = <<>>
       THEN recipes' = recipes /\ ret' = "None"
       ELSE IF sort_recipes_raises(recipes, sort_by, use_recursion, use_logical_filter)
            THEN recipes' = recipes /\ ret' = "AttributeError"
            ELSE /\ recipes' = Sorter_sort(use_recursion,
                                    IF use_logical_filter THEN Filtered(recipes) ELSE recipes,
                                    sort_by)
                 /\ ret' = "None"
    /\ op' = "sort"
    /\ UNCHANGED sortVars

sort_recipes(sort_by, use_recursion, use_logical_filter) ==
    /\ IF recipes = <<>>
       THEN recipes' = recipes /\ ret' = "None"
       ELSE IF sort_recipes_raises(recipes, sort_by, use_recursion, use_logical_filter)
            THEN recipes' = recipes /\ ret' = "AttributeError"
            ELSE /\ recipes' = sorted_recipes(recipes, sort_by, use_recursion, use_logical_filter)
                 /\ ret' = "None"
    /\ op' = "sort"
    /\ UNCHANGED sortVars

---------------------------------------------------------------------------
(* SortSpec *)

RecipeValues == [price : Prices, cooking_time : CookingTimes, rating : Ratings]

\* a list of n recipes with the fields f gives them; the i-th recipe is named i
InputList(n, f) ==
    [i \in 1..n |->
        [name |-> i, price |-> f[i].price,
         cooking_time |-> f[i].cooking_time, rating |-> f[i].rating]]

UserIdle == recipes = <<>> /\ op = "init" /\ ret = "None"

\* no LoopSorting.sort call is being stepped through
NoFrame == [result |-> 0, n |-> 0, i |-> 0, j |-> 0, swaps |-> 0]

SortInit ==
    /\ \E n \in 0..MaxLen : \E f \in [1..n -> RecipeValues] : heap = <<InputList(n, f)>>
    /\ arg = 0 /\ res = 0 /\ snapshot = <<>>
    /\ alg = "none" /\ key = "none" /\ phase = "ready"
    /\ frame = NoFrame
    /\ UserIdle

\* sorter.sort(x, k) on the input list
Sort(a, k) ==
    /\ phase = "ready"
    /\ LET r == Sorter_call(a, heap, 1, k)
       IN  /\ heap' = r.heap
           /\ res' = r.ret
    /\ arg' = 1
    /\ snapshot' = heap[1]
    /\ alg' = a /\ key' = k /\ phase' = "sorted"
    /\ UNCHANGED frame
    /\ UNCHANGED userVars

\* sorter.sort(y, k) on the list y the first call returned
Resort ==
    /\ phase = "sorted"
    /\ LET r == Sorter_call(alg, heap, res, key)
       IN  /\ heap' = r.heap
           /\ res' = r.ret
    /\ arg' = res
    /\ snapshot' = heap[res]
    /\ phase' = "resorted"
    /\ UNCHANGED <<alg, key, frame>>
    /\ UNCHANGED userVars

\* the filtered branch of sort_recipes on the input list: the two comprehensions,
\* the two sorts and the + that builds sorted_recipes, a new list
FilteredSort(a, k) ==
    /\ phase = "ready"
    /\ heap' = Append(heap, sorted_recipes(heap[1], k, a = "recursion", TRUE))
    /\ res' = Len(heap) + 1
    /\ arg' = 1
    /\ snapshot' = heap[1]
    /\ alg' = a /\ key' = k /\ phase' = "filtered"
    /\ UNCHANGED frame
    /\ UNCHANGED userVars

SortNext ==
    \/ \E a \in Algorithms, k \in SortKeys : Sort(a, k)
    \/ Resort
    \/ \E a \in Algorithms, k \in SortKeys : FilteredSort(a, k)

SortSpec == SortInit /\ [][SortNext]_vars

---------------------------------------------------------------------------
(* LoopSpec: LoopSorting.sort(recipes, key) on the input list, one step of *)
(* its loops at a time.  frame holds the locals: result (the ref of the    *)
(* copy), n, i (the outer passes completed, which is the value the loop    *)
(* variable i takes next), j, and swaps, the swaps of the pass under way.  *)

LoopRecipeValues == [price : Prices, cooking_time : CookingTimes, rating : {0}]

LoopInit ==
    /\ \E n \in 0..MaxLen : \E f \in [1..n -> LoopRecipeValues] :
            heap = <<InputList(n, f)>>
    /\ arg = 0 /\ res = 0 /\ snapshot = <<>>
    /\ alg = "none" /\ key = "none" /\ phase = "ready"
    /\ frame = NoFrame
    /\ UserIdle

\* n = len(recipes); result = recipes.copy()
LoopCall(k) ==
    /\ phase = "ready"
    /\ heap' = Append(heap, heap[1])
    /\ frame' = [result |-> Len(heap) + 1, n |-> Len(heap[1]), i |-> 0, j |-> 0,
                 swaps |-> 0]
    /\ arg' = 1
    /\ snapshot' = heap[1]
    /\ alg' = "loop" /\ key' = k /\ phase' = "looping"
    /\ UNCHANGED res
    /\ UNCHANGED userVars

\* the inner loop's body swapping on < instead of >
LoopCompare_swap_on_less ==
    /\ phase = "looping"
    /\ frame.i < frame.n
    /\ frame.j < frame.n - frame.i - 1
    /\ LET result == heap[frame.result]
           j == frame.j
       IN  IF PyLt(GetAttr(result[j + 1], key), GetAttr(result[j + 2], key))
           THEN /\ heap' = [heap EXCEPT ![frame.result] = Swap(result, j + 1, j + 2)]
                /\ frame' = [frame EXCEPT !.j = j + 1, !.swaps = @ + 1]
           ELSE /\ heap' = heap
                /\ frame' = [frame EXCEPT !.j = j + 1]
    /\ UNCHANGED <<arg, res, snapshot, alg, key, phase>>
    /\ UNCHANGED userVars

\* one iteration of for j in range(0, n - i - 1): compare result[j] with
\* result[j + 1] and swap them when the first is greater
LoopCompare ==
    /\ phase = "looping"
    /\ frame.i < frame.n
    /\ frame.j < frame.n - frame.i - 1
    /\ LET result == heap[frame.result]
           j == frame.j
       IN  IF PyGt(GetAttr(result[j + 1], key), GetAttr(result[j + 2], key))
           THEN /\ heap' = [heap EXCEPT ![frame.result] = Swap(result, j + 1, j + 2)]
                /\ frame' = [frame EXCEPT !.j = j + 1, !.swaps = @ + 1]
           ELSE /\ heap' = heap
                /\ frame' = [frame EXCEPT !.j = j + 1]
    /\ UNCHANGED <<arg, res, snapshot, alg, key, phase>>
    /\ UNCHANGED userVars

\* range(0, n - i - 1) is exhausted: the outer pass is complete
LoopPassEnd ==
    /\ phase = "looping"
    /\ frame.i < frame.n
    /\ frame.j >= frame.n - frame.i - 1
    /\ frame' = [frame EXCEPT !.i = @ + 1, !.j = 0, !.swaps = 0]
    /\ UNCHANGED <<heap, arg, res, snapshot, alg, key, phase>>
    /\ UNCHANGED userVars

\* range(n) is exhausted: return result
LoopReturn ==
    /\ phase = "looping"
    /\ frame.i >= frame.n
    /\ res' = frame.result
    /\ phase' = "returned"
    /\ UNCHANGED <<heap, arg, snapshot, alg, key, frame>>
    /\ UNCHANGED userVars

LoopStep == LoopCompare \/ LoopPassEnd \/ LoopReturn

LoopNext ==
    \/ \E k \in SortKeys : LoopCall(k)
    \/ LoopCompare
    \/ LoopPassEnd
    \/ LoopReturn

\* the statements of one call run one after the other until it returns
LoopSpec == LoopInit /\ [][LoopNext]_vars /\ WF_vars(LoopStep)

---------------------------------------------------------------------------
(* Spec *)

\* a key that is an attribute but no sort key, and a key that is no attribute
OtherKeys == {"name", "flavor"}
Indexes == (-1)..MaxRecipes

SortIdle ==
    /\ heap = <<>> /\ arg = 0 /\ res = 0 /\ snapshot = <<>>
    /\ alg = "none" /\ key = "none" /\ phase = "idle"
    /\ frame = NoFrame

\* User(): an empty catalog
Init == UserIdle /\ SortIdle

Next ==
    \/ \E name \in Names, priceText \in PriceText, timeText \in TimeText :
            add_new_recipe_interactive(name, priceText, timeText)
    \/ \E index \in Indexes : delete_recipe(index)
    \/ \E index \in Indexes, priceText \in PriceText \cup {""}, timeText \in TimeText \cup {""} :
            edit_recipe(index, priceText, timeText)
    \/ \E numberText \in NumberText, ratingText \in RatingText :
            rate_recipe(numberText, ratingText)
    \/ \E sort_by \in SortKeys \cup OtherKeys, use_recursion \in BOOLEAN,
          use_logical_filter \in BOOLEAN :
            sort_recipes(sort_by, use_recursion, use_logical_filter)

Spec == Init /\ [][Next]_vars

---------------------------------------------------------------------------
(* io_csv.load_recipes_into_user: one Recipe per row whose price and       *)
(* cooking_time convert; a row that raises ValueError is skipped.  A row   *)
(* is its price and cooking_time cells; its name is its row number.        *)

CsvPriceText == {"-5", "10,0", "abc"}
CsvTimeText == {"-5", "30", "abc"}
CsvRows == [price : CsvPriceText, cooking_time : CsvTimeText]

RECURSIVE load_rows(_, _, _)
load_rows(rs, rows, row_number) ==
    IF row_number > Len(rows)
    THEN rs
    ELSE LET row == rows[row_number]
             price_str == ReplaceComma(row.price)
         IN  IF IsFloatText(price_str) /\ IsNumeral(row.cooking_time)
             THEN load_rows(Append(rs, Recipe(row_number, ParseFloat(price_str),
                                              ParseInt(row.cooking_time))),
                            rows, row_number + 1)
             ELSE load_rows(rs, rows, row_number + 1)

load_recipes_into_user(rows) ==
    /\ op = "init"
    /\ recipes' = load_rows(recipes, rows, 1)
    /\ op' = "load"
    /\ ret' = "None"
    /\ UNCHANGED sortVars

---------------------------------------------------------------------------
(* InputSpec: main() loads the CSV file, then serves the menu.  The texts  *)
(* typed are ones float() and int() convert although they are no price,    *)
(* time or rating.                                                         *)

InputPriceText == {"-5", "10", "abc"}
InputTimeText == {"-5", "30", "abc"}
InputRatingText == {"nan", "3", "6", "-1"}
InputNumberText == {"0", "1", "2", "3", "abc"}

InputNext ==
    \/ \E n \in 0..MaxRecipes : \E rows \in [1..n -> CsvRows] :
            load_recipes_into_user(rows)
    \/ \E name \in Names, priceText \in InputPriceText, timeText \in InputTimeText :
            add_new_recipe_interactive(name, priceText, timeText)
    \/ \E index \in Indexes : delete_recipe(index)
    \/ \E index \in Indexes, priceText \in InputPriceText \cup {""},
          timeText \in InputTimeText \cup {""} :
            edit_recipe(index, priceText, timeText)
    \/ \E numberText \in InputNumberText, ratingText \in InputRatingText :
            rate_recipe(numberText, ratingText)
    \/ \E sort_by \in SortKeys \cup OtherKeys, use_recursion \in BOOLEAN,
          use_logical_filter \in BOOLEAN :
            sort_recipes(sort_by, use_recursion, use_logical_filter)

InputSpec == Init /\ [][InputNext]_vars

---------------------------------------------------------------------------
(* Properties *)

\* number of places of s that hold r
Count(s, r) == Cardinality({ i \in DOMAIN s : s[i] = r })

\* s and t hold the same records with the same multiplicities
SameRecords(s, t) ==
    /\ Len(s) = Len(t)
    /\ \A i \in DOMAIN s : Count(s, s[i]) = Count(t, s[i])

\* each element's key is <= the key of the next element
Ascending(s, k) == \A i \in 1..(Len(s) - 1) : s[i][k] <= s[i + 1][k]

\* records with equal keys come out in the order they went in
KeepsOrderOfEqualKeys(in, out, k) ==
    \A i, j \in DOMAIN in :
        (i < j /\ in[i][k] = in[j][k]) =>
            \E p, q \in DOMAIN out : p < q /\ out[p] = in[i] /\ out[q] = in[j]

\* a list with two records of equal key k
HasTie(s, k) == \E i, j \in DOMAIN s : i < j /\ s[i][k] = s[j][k]

\* the eligibility predicate as the specification states it
Eligible(r) == r.price <= 10 /\ r.cooking_time <= 30
EligibleCount(s) == Cardinality({ i \in DOMAIN s : Eligible(s[i]) })

\* out is the eligible records, ascending by k, then the others, ascending by k
MatchesThenRest(out, k, m) ==
    /\ \A i \in DOMAIN out : (i <= m) <=> Eligible(out[i])
    /\ Ascending(SubSeq(out, 1, m), k)
    /\ Ascending(SubSeq(out, m + 1, Len(out)), k)

\* part holds records of whole in the order whole has them
InOrderOf(part, whole) ==
    \A p, q \in DOMAIN part :
        p < q => \E i, j \in DOMAIN whole : i < j /\ whole[i] = part[p] /\ whole[j] = part[q]

Called == phase \in {"sorted", "resorted"}

\* C1: whatever the list and the key, the list one algorithm returns is, record
\* for record and position for position, the list the other algorithm returns
\* for the same input and key.
C1_AlgorithmsAgree ==
    Called =>
        heap[res] = IF alg = "loop" THEN RecursionSorting_sort(snapshot, key)
                                    ELSE LoopSorting_sort(snapshot, key)

C1_Witness ==
    /\ phase = "sorted" /\ alg = "recursion"
    /\ Len(snapshot) = MaxLen /\ HasTie(snapshot, key)
    /\ heap[res] # snapshot

\* C2: the list either algorithm returns is ascending by the key and holds the
\* records of the input, each as often as the input does.
C2_AscendingPermutation ==
    Called => Ascending(heap[res], key) /\ SameRecords(heap[res], snapshot)

C2_Witness ==
    /\ phase = "sorted" /\ alg = "loop"
    /\ Len(snapshot) = MaxLen /\ ~Ascending(snapshot, key)
    /\ GetAttr(snapshot[1], key) > GetAttr(snapshot[MaxLen], key)

\* C3: both sorts are stable: two records with equal keys come out in the order
\* they went in.
C3_Stable ==
    Called => KeepsOrderOfEqualKeys(snapshot, heap[res], key)

C3_Witness ==
    /\ phase = "sorted" /\ alg = "loop"
    /\ HasTie(snapshot, key) /\ ~Ascending(snapshot, key)
    /\ heap[res] # snapshot

\* C6: a sort leaves the list passed in as it was and returns a list object
\* other than the one passed in.
C6_ReturnsNewList ==
    Called => heap[arg] = snapshot /\ res # arg

\* C9: sorting a list that is already ascending by the key returns the same
\* records in the same order; so sorting the result of a sort returns it again.
C9_Idempotent ==
    /\ (Called /\ Ascending(snapshot, key)) => heap[res] = snapshot
    /\ (phase = "resorted") => heap[res] = heap[arg]

C9_Witness ==
    /\ phase = "resorted"
    /\ Len(heap[1]) = MaxLen /\ ~Ascending(heap[1], key) /\ HasTie(heap[1], key)
    /\ heap[arg] # heap[1]

\* C7: the output of a filtered sort is the eligible records first and the others
\* after them, the boundary at the number of eligible records of the input, and
\* each of the two segments ascending by the key.
C7_MatchesThenRest ==
    phase = "filtered" => MatchesThenRest(heap[res], key, EligibleCount(snapshot))

C7_Witness ==
    /\ phase = "filtered"
    /\ EligibleCount(snapshot) >= 1 /\ EligibleCount(snapshot) < Len(snapshot)
    /\ ~Eligible(snapshot[1])
    /\ Len(snapshot) = MaxLen /\ heap[res] # snapshot

\* C8: the two partitions of a filtered sort have the input's length between them,
\* every input record is in exactly one of them, each keeps the input's relative
\* order, and the output has the input's length and records.
C8_PartitionComplete ==
    phase = "filtered" =>
        /\ Len(Filtered(snapshot)) + Len(NotFiltered(snapshot)) = Len(snapshot)
        /\ \A i \in DOMAIN snapshot :
              Count(Filtered(snapshot), snapshot[i])
                + Count(NotFiltered(snapshot), snapshot[i]) = 1
        /\ InOrderOf(Filtered(snapshot), snapshot)
        /\ InOrderOf(NotFiltered(snapshot), snapshot)
        /\ Len(heap[res]) = Len(snapshot)
        /\ SameRecords(heap[res], snapshot)

C8_Witness ==
    /\ phase = "filtered"
    /\ Len(Filtered(snapshot)) >= 1 /\ Len(NotFiltered(snapshot)) >= 2
    /\ \E i \in DOMAIN snapshot : snapshot[i].price <= 10 /\ snapshot[i].cooking_time > 30

\* C4 as stated: a step of sort_recipes leaves the catalog as it was.
C4_SortLeavesCatalog ==
    [][op' = "sort" => recipes' = recipes]_vars

\* no price or rating of the list is the float NaN
NumbersOnly(rs) == \A n \in DOMAIN rs : rs[n].price # NaN /\ rs[n].rating # NaN

\* C4 as amended: sort_recipes stores the sorted list in User.recipes, so the
\* catalog after the call holds the records it held before, each as often, in the
\* order displayed: when every price and rating is a number, ascending by the key,
\* or with a filter the eligible records ascending and then the others ascending.
C4_SortOnlyReorders ==
    [][op' = "sort" =>
        /\ SameRecords(recipes', recipes)
        /\ \A sort_by \in SortKeys \cup OtherKeys, use_recursion \in BOOLEAN,
              use_logical_filter \in BOOLEAN :
                \/ (ret' = "None" /\ sort_by \in Attributes /\ NumbersOnly(recipes)) =>
                      IF use_logical_filter
                      THEN MatchesThenRest(recipes', sort_by, EligibleCount(recipes))
                      ELSE Ascending(recipes', sort_by)
                \/ ~sort_recipes(sort_by, use_recursion, use_logical_filter)]_vars

C4_Witness ==
    /\ op = "sort" /\ ret = "None"
    /\ Len(recipes) = MaxRecipes
    /\ recipes[1].name > recipes[2].name
    /\ recipes[1].price < recipes[2].price

\* C5: for a key that is not price, cooking_time or rating, sort_recipes fails on
\* every catalog and leaves the catalog as it was.
C5_UnknownKeyFails ==
    [][\A sort_by \in OtherKeys, use_recursion \in BOOLEAN, use_logical_filter \in BOOLEAN :
            sort_recipes(sort_by, use_recursion, use_logical_filter) =>
                ret' = "AttributeError" /\ recipes' = recipes]_vars

\* C10: delete_recipe(index) with 0 <= index < len removes the record at that
\* place, keeps the others in their order and returns True; with any other index
\* it returns False and leaves the catalog as it was.
C10_DeleteValidatesIndex ==
    [][\A index \in Indexes :
            delete_recipe(index) =>
                IF 0 <= index /\ index < Len(recipes)
                THEN /\ recipes' = SubSeq(recipes, 1, index)
                                    \o SubSeq(recipes, index + 2, Len(recipes))
                     /\ Len(recipes') = Len(recipes) - 1
                     /\ ret' = "True"
                ELSE recipes' = recipes /\ ret' = "False"]_vars

C10_Witness ==
    /\ op = "delete" /\ ret = "True"
    /\ Len(recipes) = MaxRecipes - 1

---------------------------------------------------------------------------
(* C11: after any sequence of catalog operations (load, interactive add,   *)
(* edit, rate, delete, sort) every record's rating is a number with        *)
(* 0.0 <= rating <= 5.0.  rate_recipe rejects a rating only when           *)
(* rating < 0 or rating > 5, and both tests are False for float("nan"),    *)
(* so "nan" typed as a rating is stored.                                   *)
C11_RatingInRange ==
    \A n \in DOMAIN recipes : PyLe(0, recipes[n].rating) /\ PyLe(recipes[n].rating, 5)

(* C12: after any sequence of operations (CSV load, add, edit, rate,       *)
(* delete, sort) every record has price >= 0 and cooking_time >= 0.  The   *)
(* three places that set the fields only convert the text with float() and *)
(* int(); none tests the sign, so "-5" is stored.                          *)
C12_NonNegative ==
    \A n \in DOMAIN recipes :
        PyGe(recipes[n].price, 0) /\ PyGe(recipes[n].cooking_time, 0)

\* the state of the call under way: the first passes outer passes are complete
LoopSettled(result, k, n, passes, final) ==
    \A p \in (n - passes + 1)..n :
        /\ result[p] = final[p]
        /\ \A q \in 1..(p - 1) : GetAttr(result[q], k) <= GetAttr(result[p], k)

C13_PassInvariant ==
    phase \in {"looping", "returned"} =>
        LET result == heap[frame.result]
        IN  /\ frame.i <= frame.n
            /\ Len(result) = frame.n
            /\ SameRecords(result, snapshot)
            /\ LoopSettled(result, key, frame.n, frame.i, LoopSorting_sort(snapshot, key))
            /\ frame.i >= frame.n - 1 => Ascending(result, key) /\ frame.swaps = 0
            /\ phase = "returned" => frame.i = frame.n /\ res = frame.result

(* C13: in LoopSorting.sort on N records, after the i-th outer pass the    *)
(* last i elements of the working list are in their final sorted positions *)
(* (each is >= every element before it), the working list is a permutation *)
(* of the input at every step, the whole list is sorted once N-1 passes    *)
(* have run, a pass after that swaps nothing, and the call returns.        *)
C13_BubblePasses ==
    /\ []C13_PassInvariant
    /\ (phase = "looping") ~> (phase = "returned")

\* one pass is complete, more than one is left, and the list is not sorted yet
C13_Witness ==
    /\ phase = "looping"
    /\ frame.n = MaxLen
    /\ frame.i = 1 /\ frame.j = 0
    /\ heap[frame.result] # snapshot
    /\ ~Ascending(heap[frame.result], key)

(* C14: membership of the catalog changes only through add and delete      *)
(* (load_recipes_into_user adds through User.add_recipe); a sort_recipes    *)
(* call that returns leaves User.recipes a permutation of what it was, for  *)
(* any key, either algorithm, filtered or not; a call on an empty catalog   *)
(* or one that raises leaves User.recipes exactly as it was.                *)
C14_MembershipOnlyAddDelete ==
    [][/\ (NamesOf(recipes') # NamesOf(recipes) \/ Len(recipes') # Len(recipes))
            => op' \in {"add", "delete", "load"}
       /\ op' = "sort" =>
            /\ SameRecords(recipes', recipes)
            /\ (recipes = <<>> \/ ret' = "AttributeError") => recipes' = recipes]_vars

\* a sort that returned on a full catalog holding a NaN rating, the later-added
\* record first
C14_Witness ==
    /\ op = "sort" /\ ret = "None"
    /\ Len(recipes) = MaxRecipes
    /\ recipes[1].name > recipes[2].name
    /\ recipes[1].cooking_time < recipes[2].cooking_time
    /\ \E n \in DOMAIN recipes : recipes[n].rating = NaN

====
